---------------------------- MODULE Spec2Model ----------------------------
(***************************************************************************)
(* A model of the Decoder combinator library (elm-decoders): Result,       *)
(* DecodeError, the primitive decoders, the combinators and the structural *)
(* decoders.  A decoder is a value (a syntax tree of the combinator        *)
(* expression that built it); `decoder(d, data)` is the private function   *)
(* it wraps.  Every evaluation also yields the ordered log of the decoder  *)
(* functions and user functions it called, so that claims about what is    *)
(* (not) invoked can be stated.                                            *)
(*                                                                         *)
(* JavaScript values are records of one uniform shape.  A JavaScript       *)
(* string is the sequence of its tokens (one-character strings for input   *)
(* data; the library's fixed messages are one token each).  A finite       *)
(* number is the decimal n / 10^sc in lowest form (0 and -0 are one        *)
(* number here).  Arrays are dense and the property names of shapes are    *)
(* ordinary names (no array index, no __proto__); the data handed to dict  *)
(* may have the own key __proto__, as JSON.parse makes it.  An object is   *)
(* its own enumerable properties; its prototype is not modelled.           *)
(***************************************************************************)
EXTENDS Integers, Sequences, FiniteSets, TLC

VARIABLES
    phase,      \* "idle": nothing called yet; "built": Decoder.oneOf has returned;
                \* "done": a run (or merge) has returned
    op,         \* the operation that was called last
    dec,        \* the decoder the call was made on (or was built by it)
    input,      \* the data handed to run
    rs,         \* the Results handed to Result.merge
    given,      \* the decoders handed to Decoder.oneOf
    result,     \* what the call returned
    calls,      \* the decoder functions and user functions the call invoked, in order
    allocated,  \* the arrays the calls of the built oneOf decoder collected branch
                \* errors in, one per call, oldest first
    tree        \* the DecodeError handed to renderError

vars == <<phase, op, dec, input, rs, given, result, calls, allocated, tree>>

----------------------------------------------------------------------------
(* Bounds of the model *)

\* the longest array handed to a decoder or to Result.merge
MaxLen == 2
\* the largest number of times one built decoder is run
MaxRuns == 2
\* the longest next list of a DecodeError that is rendered
MaxNext == 2
\* the largest number of keys of an object shape
MaxKeys == 2
\* the finite numbers handed to Decoder.number are n / 10^sc for |n| up to
\* MaxMantissa and sc up to MaxScale
MaxMantissa == 12
MaxScale == 8
\* the longest string spelled out of NumberChars
MaxStr == 3

----------------------------------------------------------------------------
(* JavaScript values *)

Value(t, b, nk, n, sc, s, keys, items) ==
    [t |-> t, b |-> b, nk |-> nk, n |-> n, sc |-> sc, s |-> s, keys |-> keys, items |-> items]

Undefined == Value("undefined", FALSE, "none", 0, 0, <<>>, <<>>, <<>>)
Null == Value("null", FALSE, "none", 0, 0, <<>>, <<>>, <<>>)
Bool(b) == Value("boolean", b, "none", 0, 0, <<>>, <<>>, <<>>)
\* the finite number n / 10^sc
Dec10(n, sc) == Value("number", FALSE, "finite", n, sc, <<>>, <<>>, <<>>)
Num(n) == Dec10(n, 0)
NaN == Value("number", FALSE, "NaN", 0, 0, <<>>, <<>>, <<>>)
Infinity == Value("number", FALSE, "Infinity", 0, 0, <<>>, <<>>, <<>>)
NegInfinity == Value("number", FALSE, "-Infinity", 0, 0, <<>>, <<>>, <<>>)
Str(s) == Value("string", FALSE, "none", 0, 0, s, <<>>, <<>>)
\* the BigInt n (10n is BigInt(10))
BigInt(n) == Value("bigint", FALSE, "none", n, 0, <<>>, <<>>, <<>>)
\* a Date: its time value is n milliseconds, or NaN (an Invalid Date)
DateOf(n) == Value("date", FALSE, "finite", n, 0, <<>>, <<>>, <<>>)
InvalidDate == Value("date", FALSE, "NaN", 0, 0, <<>>, <<>>, <<>>)
Arr(items) == Value("array", FALSE, "none", 0, 0, <<>>, <<>>, items)
\* an object: its own enumerable keys in property order, and their values
Obj(keys, items) == Value("object", FALSE, "none", 0, 0, <<>>, keys, items)
\* the slot of a record field that is not there (no JavaScript value)
Absent == Value("absent", FALSE, "none", 0, 0, <<>>, <<>>, <<>>)

\* typeof data
typeof(data) ==
    CASE data.t \in {"array", "object", "null", "date"} -> "object"
      [] OTHER -> data.t

\* Array.isArray(data)
isArray(data) == data.t = "array"

Range(seq) == {seq[i] : i \in DOMAIN seq}

IndexOf(seq, x) == CHOOSE i \in DOMAIN seq : seq[i] = x

\* data[key], for a data that is an object or an array and a key that is no array index
Get(data, key) ==
    CASE data.t = "object" /\ key \in Range(data.keys) -> data.items[IndexOf(data.keys, key)]
      [] data.t = "array" /\ key = "length" -> Num(Len(data.items))
      [] OTHER -> Undefined

----------------------------------------------------------------------------
(* DecodeError (error.ts) and Result (result.ts) *)

DecodeError(k, msg, index, value, keys, next) ==
    [k |-> k, msg |-> msg, index |-> index, value |-> value, keys |-> keys, next |-> next]

\* no error: the error slot of an OK
NoError == DecodeError("none", <<>>, 0, Absent, <<>>, <<>>)

\* { error, value }
makeSingleError(error, value) == DecodeError("single", error, 0, value, <<>>, <<>>)

\* { index, error, value }
IndexedError(index, error, value) == DecodeError("indexed", error, index, value, <<>>, <<>>)

\* [index, error]
\* an array element that is a bare number (the first element of [index, error])
NumberElement(n) == DecodeError("number", <<>>, n, Absent, <<>>, <<>>)

\* [index, error]
PairError(index, error) ==
    DecodeError("pair", <<>>, index, Absent, <<>>, <<NumberElement(index), error>>)

\* { key1: error1, ... } in property order
MapError(keys, errors) == DecodeError("map", <<>>, 0, Absent, keys, errors)

\* [error1, ...]
ListError(errors) == DecodeError("list", <<>>, 0, Absent, <<>>, errors)

\* Array.isArray(error)
isArrayError(error) == error.k \in {"list", "pair"}

\* error.value: undefined when the error has no such property
ValueOf(error) == IF error.value = Absent THEN Undefined ELSE error.value

formatIndex(index, error) ==
    IF error.k \in {"single", "indexed"}
      THEN IndexedError(index, error.msg, ValueOf(error))
      ELSE PairError(index, error)

ok(value) == [type |-> "OK", value |-> value, error |-> NoError]

fail(error) == [type |-> "FAIL", value |-> Absent, error |-> error]

isOk(r) == r.type = "OK"

isFail(r) == r.type = "FAIL"

\* the callback of values.reduce in Result.merge: p the accumulator, c the
\* current element, i its index (from 0)
MergeStep(p, c, i) ==
    CASE p.type = "OK" /\ c.type = "OK" -> ok(Arr(Append(p.value.items, c.value)))
      [] p.type = "OK" /\ c.type = "FAIL" -> fail(ListError(<<formatIndex(i, c.error)>>))
      [] p.type = "FAIL" /\ c.type = "OK" -> fail(p.error)
      [] p.type = "FAIL" /\ c.type = "FAIL" ->
            fail(ListError(Append(p.error.next, formatIndex(i, c.error))))

RECURSIVE Reduce(_, _)
\* values.reduce(callback, Result.ok([])) over the first k elements
Reduce(values, k) ==
    IF k = 0 THEN ok(Arr(<<>>))
    ELSE MergeStep(Reduce(values, k - 1), values[k], k - 1)

mergeFirstOnly(values) ==
    LET failing == {i \in DOMAIN values : values[i].type = "FAIL"}
        first == CHOOSE i \in failing : \A j \in failing : i <= j
    IN  IF failing = {} THEN Reduce(values, Len(values))
        ELSE fail(ListError(<<formatIndex(first - 1, values[first].error)>>))

\* Result.merge(values, formatIndex)
merge(values) == Reduce(values, Len(values))

----------------------------------------------------------------------------
(* Strings that look like numbers (decoder.ts: numberReSnippet, parseFloat) *)

Digits == <<"0", "1", "2", "3", "4", "5", "6", "7", "8", "9">>

isDigit(c) == c \in Range(Digits)

DigitValue(c) == IndexOf(Digits, c) - 1

\* \d+
allDigits(s) == Len(s) > 0 /\ \A i \in DOMAIN s : isDigit(s[i])

RECURSIVE Pow10(_)
Pow10(k) == IF k = 0 THEN 1 ELSE 10 * Pow10(k - 1)

RECURSIVE DigitsValue(_)
\* the number a string of digits writes (0 for the empty string)
DigitsValue(s) ==
    IF Len(s) = 0 THEN 0
    ELSE 10 * DigitsValue(SubSeq(s, 1, Len(s) - 1)) + DigitValue(s[Len(s)])

Drop(s, k) == SubSeq(s, k + 1, Len(s))

Take(s, k) == SubSeq(s, 1, k)

\* (?:\d+|\d*\.\d+)
matchesMantissa(s) ==
    \/ allDigits(s)
    \/ \E i \in DOMAIN s :
          /\ s[i] = "."
          /\ \A j \in 1..(i - 1) : isDigit(s[j])
          /\ allDigits(Drop(s, i))

\* (?:[E|e][+|-]?\d+): inside a character class the bar is one more character
matchesExponent(s) ==
    /\ Len(s) >= 2
    /\ s[1] \in {"E", "|", "e"}
    /\ \/ allDigits(Drop(s, 1))
       \/ s[2] \in {"+", "|", "-"} /\ allDigits(Drop(s, 2))

\* -?(?:(?:\d+|\d*\.\d+)(?:[E|e][+|-]?\d+)?|Infinity)
matchesSigned(s) ==
    LET u == IF Len(s) > 0 /\ s[1] = "-" THEN Drop(s, 1) ELSE s
    IN  \/ u = <<"I", "n", "f", "i", "n", "i", "t", "y">>
        \/ \E k \in 1..Len(u) :
              /\ matchesMantissa(Take(u, k))
              /\ k = Len(u) \/ matchesExponent(Drop(u, k))

isStringNumberNoExponent(n) ==
    LET u == IF Len(n) > 0 /\ n[1] = "-" THEN Drop(n, 1) ELSE n
    IN  /\ Len(n) # 0
        /\ \/ n = <<"N", "a", "N">>
           \/ u = <<"I", "n", "f", "i", "n", "i", "t", "y">>
           \/ matchesMantissa(u)

\* n.length !== 0 && n.match(matchOnlyNumberRe) !== null
isStringNumber(n) ==
    /\ Len(n) # 0
    /\ n = <<"N", "a", "N">> \/ matchesSigned(n)

RECURSIVE Lowest(_, _)
\* n / 10^sc in lowest form
Lowest(n, sc) ==
    IF sc > 0 /\ n % 10 = 0 THEN Lowest(n \div 10, sc - 1) ELSE Dec10(n, sc)

\* n / 10^sc times 10^e
Scale(n, sc, e) ==
    IF e >= sc THEN Dec10(n * Pow10(e - sc), 0) ELSE Lowest(n, sc - e)

\* the length of the mantissa of an unsigned decimal literal u: the prefix
\* that is digits with at most one point, before the exponent if there is one
MantissaLen(u) ==
    CHOOSE k \in 1..Len(u) :
        /\ matchesMantissa(Take(u, k))
        /\ k = Len(u) \/ matchesExponent(Drop(u, k))

\* where the point of a mantissa is: past its end when it has none
PointOf(mant) ==
    IF \E i \in DOMAIN mant : mant[i] = "."
      THEN CHOOSE i \in DOMAIN mant : mant[i] = "."
      ELSE Len(mant) + 1

\* the exponent an exponent part writes: 0 for none, and 0 for one written
\* with a bar, which parseFloat does not read
ExponentOf(ex) ==
    CASE Len(ex) = 0 \/ ex[1] \notin {"E", "e"} \/ ex[2] = "|" -> 0
      [] ex[2] = "-" -> 0 - DigitsValue(Drop(ex, 2))
      [] ex[2] = "+" -> DigitsValue(Drop(ex, 2))
      [] OTHER -> DigitsValue(Drop(ex, 1))

\* the number with the digits whole and frac around the point, times 10^e
Decimal(neg, whole, frac, e) ==
    Scale(IF neg THEN 0 - DigitsValue(whole \o frac) ELSE DigitsValue(whole \o frac),
          Len(frac), e)

\* the number a mantissa with its point at dot and an exponent e write
DecimalAt(neg, mant, dot, e) == Decimal(neg, Take(mant, dot - 1), Drop(mant, dot), e)

\* the number the first k characters of u, and the exponent after them, write
DecimalOf(neg, u, k) ==
    DecimalAt(neg, Take(u, k), PointOf(Take(u, k)), ExponentOf(Drop(u, k)))

\* parseFloat of an unsigned string
parseUnsigned(neg, u) ==
    IF u = <<"I", "n", "f", "i", "n", "i", "t", "y">>
      THEN IF neg THEN NegInfinity ELSE Infinity
      ELSE DecimalOf(neg, u, MantissaLen(u))

\* parseFloat of a string that isStringNumber accepts: the longest prefix that
\* is a decimal literal (so an exponent written with a bar is not read)
parseFloat(str) ==
    CASE str = <<"N", "a", "N">> -> NaN
      [] str[1] = "-" -> parseUnsigned(TRUE, Drop(str, 1))
      [] OTHER -> parseUnsigned(FALSE, str)

\* the global isNaN(data) for a data of type number
isNaN(data) == data.nk = "NaN"

\* isInteger: Math.floor(n) === n && n !== Infinity
isInteger(n) ==
    CASE n.nk = "finite" -> n.sc = 0
      [] n.nk = "-Infinity" -> TRUE
      [] OTHER -> FALSE

RECURSIVE NatDigits(_)
\* the decimal digits of a natural number
NatDigits(n) ==
    IF n < 10 THEN <<Digits[n + 1]>>
    ELSE NatDigits(n \div 10) \o <<Digits[(n % 10) + 1]>>

Zeros(k) == [i \in 1..k |-> "0"]

\* `${n}` of a finite number n (Number::toString): with k digits and the
\* decimal point after digit nn, plain digits for an integer (below 10^21),
\* digits around a point for 0 < nn, 0.000ddd for -6 < nn <= 0, and the
\* exponent form d.ddde-x below that
NumberToString(x) ==
    LET neg == x.n < 0
        D == NatDigits(IF neg THEN 0 - x.n ELSE x.n)
        k == Len(D)
        nn == k - x.sc
        body == CASE x.sc = 0 -> D
                  [] x.sc > 0 /\ nn > 0 -> Take(D, nn) \o <<".">> \o Drop(D, nn)
                  [] x.sc > 0 /\ nn <= 0 /\ nn > -6 -> <<"0", ".">> \o Zeros(0 - nn) \o D
                  [] OTHER -> (IF k = 1 THEN D ELSE <<D[1], ".">> \o Drop(D, 1))
                                 \o <<"e", "-">> \o NatDigits(1 - nn)
    IN  IF neg THEN <<"-">> \o body ELSE body

\* anything.match(/^[+-]?\d+(\.\d+)?$/) !== null
matchesTestGrammar(s) ==
    LET u == IF Len(s) > 0 /\ s[1] \in {"+", "-"} THEN Drop(s, 1) ELSE s
    IN  \/ allDigits(u)
        \/ \E i \in DOMAIN u :
              /\ u[i] = "."
              /\ allDigits(Take(u, i - 1))
              /\ allDigits(Drop(u, i))

----------------------------------------------------------------------------
(* Dates (new Date, Date.parse, toISOString).  The time values of the      *)
(* model are those of the first days of January 1970.                      *)

\* the milliseconds of a second, a minute, an hour and a day of a time value
MsPerSecond == 1000
MsPerMinute == 60 * MsPerSecond
MsPerHour == 60 * MsPerMinute
MsPerDay == 24 * MsPerHour

\* the last day of January 1970 whose time values are modelled
LastDay == 24

\* new Date(n) for a number n: an infinity or NaN gives an Invalid Date, a
\* finite number is cut to an integer
NewDateOfNumber(n) ==
    IF n.nk # "finite" THEN InvalidDate
    ELSE IF n.n >= 0 THEN DateOf(n.n \div Pow10(n.sc))
    ELSE DateOf(0 - ((0 - n.n) \div Pow10(n.sc)))

\* \d{k} at position i of str
digitsAt(str, i, k) ==
    /\ i + k - 1 <= Len(str)
    /\ \A j \in i..(i + k - 1) : isDigit(str[j])

\* (\d{4})-(\d{2})-(\d{2}) at position i of str
matchesDateAt(str, i) ==
    /\ i + 9 <= Len(str)
    /\ digitsAt(str, i, 4) /\ str[i + 4] = "-"
    /\ digitsAt(str, i + 5, 2) /\ str[i + 7] = "-"
    /\ digitsAt(str, i + 8, 2)

\* THH:mm:ss.sssZ at position i of str, to the end
matchesTimeAt(str, i) ==
    /\ Len(str) = i + 13
    /\ str[i] = "T" /\ digitsAt(str, i + 1, 2) /\ str[i + 3] = ":"
    /\ digitsAt(str, i + 4, 2) /\ str[i + 6] = ":"
    /\ digitsAt(str, i + 7, 2) /\ str[i + 9] = "."
    /\ digitsAt(str, i + 10, 3) /\ str[i + 13] = "Z"

\* the number the k digits at position i of str write
FieldAt(str, i, k) == DigitsValue(SubSeq(str, i, i + k - 1))

\* the time value of day D of January 1970 at h:m:s.ms UTC
MakeTime(D, h, m, sec, ms) ==
    (D - 1) * MsPerDay + h * MsPerHour + m * MsPerMinute + sec * MsPerSecond + ms

\* Date.parse(str) for a str in the date-time format YYYY-MM-DD or
\* YYYY-MM-DDTHH:mm:ss.sssZ: NaN when a field has an illegal value; the
\* dates of the model otherwise (a str of another year or month has no
\* time value here)
parseDateTime(str) ==
    LET Y == FieldAt(str, 1, 4)
        M == FieldAt(str, 6, 2)
        D == FieldAt(str, 9, 2)
        timed == Len(str) > 10
        h == IF timed THEN FieldAt(str, 12, 2) ELSE 0
        m == IF timed THEN FieldAt(str, 15, 2) ELSE 0
        sec == IF timed THEN FieldAt(str, 18, 2) ELSE 0
        ms == IF timed THEN FieldAt(str, 21, 3) ELSE 0
    IN  CASE M < 1 \/ M > 12 \/ D < 1 \/ D > 31 \/ h > 24 \/ m > 59 \/ sec > 59
               \/ (h = 24 /\ (m > 0 \/ sec > 0 \/ ms > 0)) -> InvalidDate
          [] Y = 1970 /\ M = 1 /\ D <= LastDay -> DateOf(MakeTime(D, h, m, sec, ms))

\* new Date(str) for a string: the date-time format, or no date
NewDateOfString(str) ==
    IF matchesDateAt(str, 1) /\ (Len(str) = 10 \/ matchesTimeAt(str, 11))
      THEN parseDateTime(str)
      ELSE InvalidDate

\* n as k digits
Padded(n, k) == [i \in 1..k |-> Digits[((n \div Pow10(k - i)) % 10) + 1]]

\* d.toISOString() for a Date of the model
toISOString(d) ==
    <<"1", "9", "7", "0", "-", "0", "1", "-">> \o Padded((d.n \div MsPerDay) + 1, 2)
        \o <<"T">> \o Padded((d.n % MsPerDay) \div MsPerHour, 2)
        \o <<":">> \o Padded((d.n % MsPerHour) \div MsPerMinute, 2)
        \o <<":">> \o Padded((d.n % MsPerMinute) \div MsPerSecond, 2)
        \o <<".">> \o Padded(d.n % MsPerSecond, 3) \o <<"Z">>

\* isDate: !isNaN(d.getDate())
isDate(d) == d.nk # "NaN"

\* isISO: str.match(/(\d{4})-(\d{2})-(\d{2})/) !== null
isISO(str) == \E i \in DOMAIN str : matchesDateAt(str, i)

----------------------------------------------------------------------------
(* The earlier error.ts: a DecodeError is { message, next? } and            *)
(* renderError makes a text of it.  A text is the sequence of its tokens:  *)
(* a message is one token, a space, a colon and a line break one each.     *)

\* { message }
MessageError(message) == DecodeError("message", message, 0, Absent, <<>>, <<>>)

\* { message, next }
NextError(message, next) == DecodeError("next", message, 0, Absent, <<>>, next)

\* strs.join(sep)
RECURSIVE join(_, _)
join(strs, sep) ==
    IF Len(strs) = 0 THEN <<>>
    ELSE IF Len(strs) = 1 THEN strs[1]
    ELSE strs[1] \o sep \o join(Tail(strs), sep)

\* `${error}` for an error that is not a string: an object gives
\* '[object Object]', an array its elements joined by commas
RECURSIVE interpolate(_)
interpolate(error) ==
    CASE error.k = "list" ->
           join([i \in DOMAIN error.next |-> interpolate(error.next[i])], <<",">>)
      [] error.k = "pair" ->
           NumberToString(Num(error.index)) \o <<",">> \o interpolate(error.next[2])
      [] OTHER -> <<"[object Object]">>

\* error.next as a condition: an array is truthy, the empty one too
hasNext(error) == error.k = "next"

\* ' '.repeat(pad) + str
addSpaces(pad, str) == [i \in 1..pad |-> " "] \o str

\* createRenderer(pad)(error)
RECURSIVE createRenderer(_, _)
createRenderer(pad, error) ==
    IF hasNext(error)
      THEN LET next == [i \in DOMAIN error.next |-> createRenderer(pad + 2, error.next[i])]
           IN  addSpaces(pad, error.msg) \o <<":", "\n">> \o join(next, <<"\n">>)
      ELSE addSpaces(pad, error.msg)

renderError(error) ==
    <<"Error(s) decoding data:", "\n">> \o createRenderer(2, error)

----------------------------------------------------------------------------
(* Decoder values.  new Decoder(closure) is the record of what the closure  *)
(* closes over: op names the closure, the other fields are its captured    *)
(* variables.                                                              *)

\* a user function handed to then, or the closure satisfy hands to then
Fn(name, predicate, hasMessage, failureMessage) ==
    [name |-> name, predicate |-> predicate, hasMessage |-> hasMessage,
     failureMessage |-> failureMessage, literal |-> Absent]

\* the closure literalString and literalNumber hand to then: it closes over
\* the literal
LiteralFn(name, literal) ==
    [name |-> name, predicate |-> "none", hasMessage |-> FALSE,
     failureMessage |-> <<>>, literal |-> literal]

NoFn == Fn("none", "none", FALSE, <<>>)

NewDecoder(o, message, value, fn, keys, subs) ==
    [op |-> o, message |-> message, value |-> value, fn |-> fn, keys |-> keys, subs |-> subs]

Primitive(o) == NewDecoder(o, <<>>, Absent, NoFn, <<>>, <<>>)

\* the static Decoder.ok itself: a function, not a Decoder (it has no run, no decoder)
DecoderOkFunction == Primitive("Decoder.ok (function)")

\* Decoder.ok(value)
NewOk(value) == NewDecoder("ok", <<>>, value, NoFn, <<>>, <<>>)

\* Decoder.fail(message)
NewFail(message) == NewDecoder("fail", message, Absent, NoFn, <<>>, <<>>)

\* Decoder.array(decoder)
NewArray(d) == NewDecoder("array", <<>>, Absent, NoFn, <<>>, <<d>>)

\* Decoder.object(object): the shape's keys in property order, and their decoders
NewObject(keys, decoders) == NewDecoder("object", <<>>, Absent, NoFn, keys, decoders)

\* Decoder.createOneOf(decoders)
NewOneOf(decoders) == NewDecoder("oneOf", <<>>, Absent, NoFn, <<>>, decoders)

\* this.then(dependentDecoder)
NewThen(this, dependentDecoder) ==
    NewDecoder("then", <<>>, Absent, dependentDecoder, <<>>, <<this>>)

\* this.or(decoder)
NewOr(this, decoder) == NewDecoder("or", <<>>, Absent, NoFn, <<>>, <<this, decoder>>)

\* this.default(value)
NewDefault(this, value) == NewDecoder("default", <<>>, value, NoFn, <<>>, <<this>>)

\* this.map(mapFunction)
NewMap(this, mapFunction) == NewDecoder("map", <<>>, Absent, mapFunction, <<>>, <<this>>)

\* Decoder.field(key, decoder)
NewField(key, d) == NewDecoder("field", <<>>, Absent, NoFn, <<key>>, <<d>>)

\* Decoder.dict(decoder)
NewDict(d) == NewDecoder("dict", <<>>, Absent, NoFn, <<>>, <<d>>)

\* this.satisfy({predicate, failureMessage}): this.then of the closure over both;
\* hasMessage is FALSE when failureMessage is left out (undefined)
NewSatisfy(this, predicate, hasMessage, failureMessage) ==
    NewThen(this, Fn("satisfy", predicate, hasMessage, failureMessage))

\* Decoder.timestamp
timestamp == NewSatisfy(Primitive("number"), "isInteger", TRUE, <<"Not a timestamp">>)

\* Decoder.literalString(str)
literalString(str) == NewThen(Primitive("string"), LiteralFn("literalString", str))

\* Decoder.literalNumber(number)
literalNumber(number) == NewThen(Primitive("number"), LiteralFn("literalNumber", number))

\* Decoder.oneOf(decoders): what the call returns
oneOf(decoders) ==
    IF Len(decoders) = 0 THEN DecoderOkFunction ELSE NewOneOf(decoders)

\* Decoder.date
date ==
    oneOf(<<NewMap(timestamp, Fn("newDate", "none", FALSE, <<>>)), Primitive("isoDate")>>)

----------------------------------------------------------------------------
(* The log of a call: every decoder function and user function invoked,    *)
(* in order; lvl is the nesting below the call that is logged first.       *)

Entry(kind, d, fn, x) == [kind |-> kind, lvl |-> 0, d |-> d, fn |-> fn, x |-> x]

DecoderCall(d, x) == Entry("decoder", d, NoFn, x)

\* a call of a user function: dependentDecoder(x), or predicate(x)
FnCall(kind, fn, x) == Entry(kind, Primitive("none"), fn, x)

Nested(log) == [i \in DOMAIN log |-> [log[i] EXCEPT !.lvl = @ + 1]]

\* what an evaluation yields: its Result, and the calls it made
Ret(res, log) == [res |-> res, log |-> log]

Pure(res) == Ret(res, <<>>)

----------------------------------------------------------------------------
(* User functions: the predicates and dependent decoders the calls are     *)
(* made with.                                                              *)

\* predicate(value), for the predicates n => n > 0 (of numbers), _ => true, _ => false
\* and the library's isInteger
Predicate(name, value) ==
    CASE name = "isInteger" -> isInteger(value)
      [] name = "positive" ->
            \/ value.nk = "finite" /\ value.n > 0
            \/ value.nk = "Infinity"
      [] name = "always" -> TRUE
      [] name = "never" -> FALSE

\* dependentDecoder(value), for the user functions
\*   _ => Decoder.ok('hi'), v => Decoder.ok(v), _ => Decoder.any,
\*   _ => Decoder.string, _ => Decoder.fail('unsupported')
UserThen(name, value) ==
    CASE name = "okHi" -> NewOk(Str(<<"h", "i">>))
      [] name = "okSame" -> NewOk(value)
      [] name = "any" -> Primitive("any")
      [] name = "string" -> Primitive("string")
      [] name = "unsupported" -> NewFail(<<"unsupported">>)

\* mapFunction(value), for the user functions v => v, (_) => undefined, v => [v]
\* and the (n) => new Date(n) of Decoder.date
UserMap(name, value) ==
    CASE name = "newDate" -> NewDateOfNumber(value)
      [] name = "identity" -> value
      [] name = "toUndefined" -> Undefined
      [] name = "wrap" -> Arr(<<value>>)

\* a user function handed to map
MapFn(name) == Fn(name, "none", FALSE, <<>>)

----------------------------------------------------------------------------
(* The decoder functions *)

RECURSIVE invoke(_, _), run(_, _)

\* Decoder.number
number(data) ==
    CASE typeof(data) = "number" ->
            IF ~isNaN(data) THEN ok(data)
            ELSE fail(makeSingleError(<<"Not a number">>, data))
      [] typeof(data) = "string" ->
            IF isStringNumber(data.s) THEN ok(parseFloat(data.s))
            ELSE fail(makeSingleError(<<"Not a number">>, data))
      [] OTHER -> fail(makeSingleError(<<"Not a number">>, data))

\* Decoder.string
string(data) ==
    IF typeof(data) = "string" THEN ok(data)
    ELSE fail(makeSingleError(<<"Not a string">>, data))

booleanStrict(data) ==
    IF typeof(data) = "boolean" THEN ok(data)
    ELSE fail(makeSingleError(<<"Not a boolean">>, data))

booleanIgnoringCase(data) ==
    CASE typeof(data) = "boolean" -> ok(data)
      [] typeof(data) = "string" ->
            CASE data.s \in {<<"t", "r", "u", "e">>, <<"T", "r", "u", "e">>} -> ok(Bool(TRUE))
              [] data.s \in {<<"f", "a", "l", "s", "e">>, <<"F", "A", "L", "S", "E">>} ->
                    ok(Bool(FALSE))
              [] OTHER -> fail(makeSingleError(<<"Not a boolean">>, data))
      [] OTHER -> fail(makeSingleError(<<"Not a boolean">>, data))

\* Decoder.boolean
boolean(data) ==
    CASE typeof(data) = "boolean" -> ok(data)
      [] typeof(data) = "string" ->
            CASE data.s = <<"t", "r", "u", "e">> -> ok(Bool(TRUE))
              [] data.s = <<"f", "a", "l", "s", "e">> -> ok(Bool(FALSE))
              [] OTHER -> fail(makeSingleError(<<"Not a boolean">>, data))
      [] OTHER -> fail(makeSingleError(<<"Not a boolean">>, data))

\* Decoder.undefined
undefined(data) ==
    IF data = Undefined THEN ok(data)
    ELSE fail(makeSingleError(<<"Not undefined">>, data))

\* Decoder.null
null(data) ==
    IF data = Null THEN ok(data)
    ELSE fail(makeSingleError(<<"Not null">>, data))

\* Decoder.any
any(data) == ok(data)

\* Decoder.isoDate
isoDate(data) ==
    CASE data.t = "date" ->
            IF isDate(data) THEN ok(data)
            ELSE fail(makeSingleError(<<"Badly formatted date object">>, data))
      [] data.t = "string" ->
            IF isISO(data.s) THEN ok(NewDateOfString(data.s))
            ELSE fail(makeSingleError(<<"Not a ISO date">>, data))
      [] OTHER -> fail(makeSingleError(<<"Not a ISO date">>, data))

\* the closure of Decoder.ok(value)
decoderOk(value) == ok(value)

\* the closure of Decoder.fail(message): { error: message }, without a value
decoderFail(message) == fail(DecodeError("single", message, 0, Absent, <<>>, <<>>))

RECURSIVE Concat(_)
\* the logs of a sequence of evaluations, one after the other
Concat(rets) ==
    IF Len(rets) = 0 THEN <<>> ELSE rets[1].log \o Concat(Tail(rets))

arrayNoTypeCheck(decoder, data) ==
    LET rets == [i \in DOMAIN data.items |-> invoke(decoder, data.items[i])]
    IN  Ret(merge([i \in DOMAIN rets |-> rets[i].res]), Concat(rets))

\* the closure of Decoder.array(decoder)
array(decoder, data) ==
    IF isArray(data)
      THEN LET rets == [i \in DOMAIN data.items |-> invoke(decoder, data.items[i])]
           IN  Ret(merge([i \in DOMAIN rets |-> rets[i].res]), Concat(rets))
      ELSE Pure(fail(makeSingleError(<<"Not an array">>, data)))

RECURSIVE objectLoop(_, _, _, _)
\* the state of the loop `for (key in object)` after the first k keys of the
\* shape: obj, errors, and the calls made
objectLoop(keys, decoders, data, k) ==
    IF k = 0 THEN [obj |-> Obj(<<>>, <<>>), errors |-> MapError(<<>>, <<>>), log |-> <<>>]
    ELSE LET before == objectLoop(keys, decoders, data, k - 1)
             key == keys[k]
             r == invoke(decoders[k], Get(data, key))
         IN  IF r.res.type = "OK"
               THEN [obj |-> Obj(Append(before.obj.keys, key),
                                 Append(before.obj.items, r.res.value)),
                     errors |-> before.errors,
                     log |-> before.log \o r.log]
               ELSE [obj |-> before.obj,
                     errors |-> MapError(Append(before.errors.keys, key),
                                         Append(before.errors.next, r.res.error)),
                     log |-> before.log \o r.log]

RECURSIVE objectLoopStopping(_, _, _, _)
objectLoopStopping(keys, decoders, data, k) ==
    IF k = 0 THEN [obj |-> Obj(<<>>, <<>>), errors |-> MapError(<<>>, <<>>), log |-> <<>>]
    ELSE LET before == objectLoopStopping(keys, decoders, data, k - 1)
             key == keys[k]
             r == invoke(decoders[k], Get(data, key))
         IN  IF Len(before.errors.keys) > 0 THEN before
             ELSE IF r.res.type = "OK"
               THEN [obj |-> Obj(Append(before.obj.keys, key),
                                 Append(before.obj.items, r.res.value)),
                     errors |-> before.errors,
                     log |-> before.log \o r.log]
               ELSE [obj |-> before.obj,
                     errors |-> MapError(Append(before.errors.keys, key),
                                         Append(before.errors.next, r.res.error)),
                     log |-> before.log \o r.log]

objectStopAtFirst(keys, decoders, data) ==
    IF typeof(data) = "object" /\ data # Null
      THEN LET end == objectLoopStopping(keys, decoders, data, Len(keys))
           IN  IF Len(end.errors.keys) = 0 THEN Ret(ok(end.obj), end.log)
               ELSE Ret(fail(end.errors), end.log)
      ELSE Pure(fail(makeSingleError(<<"Not an object">>, data)))

objectCopyInput(keys, decoders, data) ==
    IF typeof(data) = "object" /\ data # Null
      THEN LET end == objectLoop(keys, decoders, data, Len(keys))
           IN  IF Len(end.errors.keys) = 0 THEN Ret(ok(data), end.log)
               ELSE Ret(fail(end.errors), end.log)
      ELSE Pure(fail(makeSingleError(<<"Not an object">>, data)))

\* the closure of Decoder.object(object): keys and decoders are the shape
object(keys, decoders, data) ==
    IF typeof(data) = "object" /\ data # Null
      THEN LET end == objectLoop(keys, decoders, data, Len(keys))
           IN  IF Len(end.errors.keys) = 0 THEN Ret(ok(end.obj), end.log)
               ELSE Ret(fail(end.errors), end.log)
      ELSE Pure(fail(makeSingleError(<<"Not an object">>, data)))

RECURSIVE oneOfLoop(_, _, _, _, _), oneOfSwitch(_, _, _, _, _, _)
\* the loop `for (next of decoders)` from its k-th decoder on, with the errors
\* and the calls so far
oneOfLoop(decoders, data, k, errors, log) ==
    IF k > Len(decoders) THEN Ret(fail(errors), log)
    ELSE oneOfSwitch(decoders, data, k, errors, log, invoke(decoders[k], data))

\* the switch on result.type in the loop: r is next.decoder(data)
oneOfSwitch(decoders, data, k, errors, log, r) ==
    IF r.res.type = "OK" THEN Ret(ok(r.res.value), log \o r.log)
    ELSE IF isArrayError(r.res.error) /\ isArrayError(errors)
      THEN oneOfLoop(decoders, data, k + 1,
                     ListError(errors.next \o r.res.error.next), log \o r.log)
      ELSE oneOfLoop(decoders, data, k + 1,
                     ListError(Append(errors.next, r.res.error)), log \o r.log)

RECURSIVE oneOfLoopLast(_, _, _, _, _, _)
oneOfLoopLast(decoders, data, k, errors, log, found) ==
    IF k > Len(decoders)
      THEN IF found.type = "OK" THEN Ret(found, log) ELSE Ret(fail(errors), log)
    ELSE LET r == invoke(decoders[k], data)
         IN  IF r.res.type = "OK"
               THEN oneOfLoopLast(decoders, data, k + 1, errors, log \o r.log,
                                  IF found.type = "OK" THEN found ELSE ok(r.res.value))
             ELSE IF isArrayError(r.res.error) /\ isArrayError(errors)
               THEN oneOfLoopLast(decoders, data, k + 1,
                                  ListError(errors.next \o r.res.error.next), log \o r.log,
                                  found)
               ELSE oneOfLoopLast(decoders, data, k + 1,
                                  ListError(Append(errors.next, r.res.error)), log \o r.log,
                                  found)

createOneOfNoShortCircuit(decoders, data) ==
    oneOfLoopLast(decoders, data, 1, ListError(<<>>), <<>>, fail(NoError))

\* a call that keeps the array of the call before it
errorsKept(before) ==
    IF before = <<>> THEN ListError(<<>>) ELSE before[Len(before)]

\* let errors: DecodeError = [] in the closure: every call of the closure
\* starts from a new empty array, whatever arrays the calls before it made
newErrors(before) == ListError(<<>>)

\* the closure of Decoder.createOneOf(decoders)
createOneOf(decoders, data) ==
    oneOfLoop(decoders, data, 1, newErrors(allocated), <<>>)

\* the array errors of the closure as the call leaves it, on either return
RECURSIVE errorsAtReturn(_, _, _, _), errorsAtSwitch(_, _, _, _, _)
errorsAtReturn(decoders, data, k, errors) ==
    IF k > Len(decoders) THEN errors
    ELSE errorsAtSwitch(decoders, data, k, errors, invoke(decoders[k], data).res)

\* the array errors after the switch on r, which is next.decoder(data).get
errorsAtSwitch(decoders, data, k, errors, r) ==
    IF r.type = "OK" THEN errors
    ELSE IF isArrayError(r.error) /\ isArrayError(errors)
      THEN errorsAtReturn(decoders, data, k + 1, ListError(errors.next \o r.error.next))
      ELSE errorsAtReturn(decoders, data, k + 1, ListError(Append(errors.next, r.error)))

\* the closure satisfy hands to then
satisfyClosure(fn, value) ==
    IF Predicate(fn.predicate, value)
      THEN NewOk(value)
      ELSE LET message == IF fn.hasMessage /\ Len(fn.failureMessage) > 0
                            THEN fn.failureMessage
                            ELSE <<"Not fulfilled predicate">>
           IN  NewFail(message)

\* x === y, for two strings or two numbers
strictEquals(x, y) == x = y /\ ~isNaN(x)

\* `${x}`, for a string or a number
templateString(x) ==
    CASE x.t = "string" -> x.s
      [] x.t = "number" /\ x.nk = "finite" -> NumberToString(x)
      [] OTHER -> <<x.nk>>

\* a closure that takes every string the literal begins for the literal
literalBeginning(fn, value) ==
    IF \/ strictEquals(value, fn.literal)
       \/ /\ value.t = "string"
          /\ Len(value.s) >= Len(fn.literal.s)
          /\ Take(value.s, Len(fn.literal.s)) = fn.literal.s
      THEN NewOk(fn.literal)
      ELSE NewFail(<<"Not ">> \o templateString(fn.literal))

\* the closure literalString and literalNumber hand to then
literalClosure(fn, value) ==
    IF strictEquals(value, fn.literal)
      THEN NewOk(fn.literal)
      ELSE NewFail(<<"Not ">> \o templateString(fn.literal))

\* dependentDecoder(value): the decoder it returns and the user functions it called
dependentDecoder(fn, value) ==
    CASE fn.name = "satisfy" ->
           [d |-> satisfyClosure(fn, value), log |-> <<FnCall("predicate", fn, value)>>]
      [] fn.name \in {"literalString", "literalNumber"} ->
           [d |-> literalClosure(fn, value), log |-> <<>>]
      [] OTHER -> [d |-> UserThen(fn.name, value), log |-> <<>>]

thenOnValue(this, fn, data) ==
    LET r == invoke(this, data)
    IN  IF r.res.type = "OK"
          THEN LET dep == dependentDecoder(fn, r.res.value)
                   s == invoke(dep.d, r.res.value)
               IN  Ret(s.res,
                       r.log \o <<FnCall("dependentDecoder", fn, r.res.value)>>
                             \o Nested(dep.log) \o s.log)
          ELSE Ret(fail(r.res.error), r.log)

\* the closure of this.then(dependentDecoder)
then(this, fn, data) ==
    LET r == invoke(this, data)
    IN  IF r.res.type = "OK"
          THEN LET dep == dependentDecoder(fn, r.res.value)
                   s == invoke(dep.d, data)
               IN  Ret(s.res,
                       r.log \o <<FnCall("dependentDecoder", fn, r.res.value)>>
                             \o Nested(dep.log) \o s.log)
          ELSE Ret(fail(r.res.error), r.log)

defaultOnOk(this, value, data) ==
    LET r == invoke(this, data)
    IN  IF isFail(r.res) THEN r ELSE Ret(ok(value), r.log)

\* the closure of this.default(value)
default(this, value, data) ==
    LET r == invoke(this, data)
    IN  IF isOk(r.res) THEN r ELSE Ret(ok(value), r.log)

\* { message: 'Not one of', next: [{ message: `- ${error1}` }, { message: `- ${error2}` }] }
orMessage(error1, error2) ==
    NextError(<<"Not one of">>,
              <<MessageError(<<"-", " ">> \o interpolate(error1)),
                MessageError(<<"-", " ">> \o interpolate(error2))>>)

\* case 'FAIL' of this.or(decoder): res2 is decoder.decoder(data)
orSecond(res1, res2) ==
    IF res2.res.type = "OK" THEN Ret(ok(res2.res.value), res1.log \o res2.log)
    ELSE Ret(fail(orMessage(res1.res.error, res2.res.error)), res1.log \o res2.log)

\* the switch of this.or(decoder) on res1, which is this.decoder(data)
orFirst(res1, decoder, data) ==
    IF res1.res.type = "OK" THEN Ret(ok(res1.res.value), res1.log)
    ELSE orSecond(res1, invoke(decoder, data))

\* the closure of this.or(decoder)
or(this, decoder, data) == orFirst(invoke(this, data), decoder, data)

\* result.map(f), for f = (res) => mapFunction(res)
ResultMap(r, fn) ==
    IF r.type = "OK" THEN ok(UserMap(fn.name, r.value)) ELSE fail(r.error)

\* result.mapError(f), for f = (e) => ({ [key]: e })
ResultMapError(r, key) ==
    IF r.type = "OK" THEN ok(r.value) ELSE fail(MapError(<<key>>, <<r.error>>))

mapKeepsValue(this, fn, data) == invoke(this, data)

\* the closure of this.map(mapFunction)
map(this, fn, data) ==
    LET r == invoke(this, data)
    IN  Ret(ResultMap(r.res, fn),
            r.log \o (IF r.res.type = "OK"
                        THEN <<FnCall("mapFunction", fn, r.res.value)>>
                        ELSE <<>>))

optionalWithoutNull(decoder) == oneOf(<<Primitive("undefined"), decoder>>)

\* Decoder.optional(decoder)
optional(decoder) ==
    oneOf(<<Primitive("undefined"),
            NewMap(Primitive("null"), MapFn("toUndefined")),
            decoder>>)

fieldUnwrapped(key, decoder, data) ==
    IF typeof(data) = "object" /\ data # Null
      THEN invoke(decoder, Get(data, key))
      ELSE Pure(fail(makeSingleError(<<"Not an object">>, data)))

\* the closure of Decoder.field(key, decoder)
field(key, decoder, data) ==
    IF typeof(data) = "object" /\ data # Null
      THEN LET r == invoke(decoder, Get(data, key))
           IN  Ret(ResultMapError(r.res, key), r.log)
      ELSE Pure(fail(makeSingleError(<<"Not an object">>, data)))

\* the keys for (const key in data) visits, in order: the own keys of an
\* object, the indices of an array (of at most ten elements)
forInKeys(data) ==
    IF data.t = "array" THEN [i \in DOMAIN data.items |-> Digits[i]] ELSE data.keys

\* decoded[key] = value on the plain object decoded: '__proto__' names the
\* accessor of Object.prototype, whose setter replaces the prototype when
\* value is an object or null and does nothing otherwise; no own property
\* is added
SetProperty(decoded, key, value) ==
    IF key = "__proto__" THEN decoded
    ELSE Obj(Append(decoded.keys, key), Append(decoded.items, value))

\* errors[key] = error on the plain object errors (an error is an object)
SetError(errors, key, error) ==
    IF key = "__proto__" THEN errors
    ELSE MapError(Append(errors.keys, key), Append(errors.next, error))

RECURSIVE dictLoop(_, _, _)
\* the loop of Decoder.dict over the first k keys of data: decoded and errors,
\* each as keys and values in property order, and the calls made
dictLoop(decoder, data, k) ==
    IF k = 0
      THEN [decoded |-> Obj(<<>>, <<>>), errors |-> MapError(<<>>, <<>>), log |-> <<>>]
      ELSE LET before == dictLoop(decoder, data, k - 1)
               key == forInKeys(data)[k]
               r == run(decoder, data.items[k])
           IN  IF r.res.type = "OK"
                 THEN [before EXCEPT !.decoded = SetProperty(@, key, r.res.value),
                                     !.log = @ \o r.log]
                 ELSE [before EXCEPT !.errors = SetError(@, key, r.res.error),
                                     !.log = @ \o r.log]

\* the closure of Decoder.dict(decoder)
dict(decoder, data) ==
    IF typeof(data) = "object" /\ data # Null
      THEN LET all == dictLoop(decoder, data, Len(forInKeys(data)))
           IN  IF Len(all.errors.keys) = 0 THEN Ret(ok(all.decoded), all.log)
               ELSE Ret(fail(all.errors), all.log)
      ELSE Pure(fail(makeSingleError(<<"Not an object">>, data)))

\* this.decoder(data) of a Decoder d: its closure applied to data
decoder(d, data) ==
    CASE d.op = "number" -> Pure(number(data))
      [] d.op = "string" -> Pure(string(data))
      [] d.op = "boolean" -> Pure(boolean(data))
      [] d.op = "undefined" -> Pure(undefined(data))
      [] d.op = "null" -> Pure(null(data))
      [] d.op = "any" -> Pure(any(data))
      [] d.op = "isoDate" -> Pure(isoDate(data))
      [] d.op = "ok" -> Pure(decoderOk(d.value))
      [] d.op = "fail" -> Pure(decoderFail(d.message))
      [] d.op = "array" -> array(d.subs[1], data)
      [] d.op = "object" -> object(d.keys, d.subs, data)
      [] d.op = "oneOf" -> createOneOf(d.subs, data)
      [] d.op = "then" -> then(d.subs[1], d.fn, data)
      [] d.op = "default" -> default(d.subs[1], d.value, data)
      [] d.op = "map" -> map(d.subs[1], d.fn, data)
      [] d.op = "field" -> field(d.keys[1], d.subs[1], data)
      [] d.op = "dict" -> dict(d.subs[1], data)
      [] d.op = "or" -> or(d.subs[1], d.subs[2], data)

\* a call d.decoder(data): logged, with the calls it makes nested below it
invoke(d, data) ==
    LET r == decoder(d, data)
    IN  Ret(r.res, <<DecoderCall(d, data)>> \o Nested(r.log))

\* a value thrown instead of a Result
Thrown(name) == [type |-> "THROW", value |-> Str(<<name>>), error |-> NoError]

\* d.run(data); what Decoder.oneOf([]) returned has no run, so calling it
\* throws a TypeError
run(d, data) ==
    IF d = DecoderOkFunction THEN Pure(Thrown("TypeError")) ELSE invoke(d, data)

\* { failed, successful }
Partition(failed, successful) ==
    Obj(<<"failed", "successful">>, <<Arr(failed), Arr(successful)>>)

\* a call that returned a value that is not a Result
ReturnedValue(value) == [type |-> "RETURN", value |-> value, error |-> NoError]

\* one turn of the loop of this.sequence: result is this.run(item), pushed
\* onto successful or (the raw item) onto failed
sequenceStep(before, item, r) ==
    IF r.res.type = "OK"
      THEN [before EXCEPT !.successful = Append(@, r.res.value), !.log = @ \o r.log]
      ELSE [before EXCEPT !.failed = Append(@, item), !.log = @ \o r.log]

RECURSIVE sequenceLoop(_, _, _)
\* the loop of this.sequence over the first k items: failed, successful and
\* the calls made
sequenceLoop(this, items, k) ==
    IF k = 0 THEN [failed |-> <<>>, successful |-> <<>>, log |-> <<>>]
    ELSE sequenceStep(sequenceLoop(this, items, k - 1), items[k], run(this, items[k]))

\* return { failed, successful }
sequenceReturn(all) == Ret(ReturnedValue(Partition(all.failed, all.successful)), all.log)

sequenceStepRaw(before, item, r) ==
    IF r.res.type = "OK"
      THEN [before EXCEPT !.successful = Append(@, item), !.log = @ \o r.log]
      ELSE [before EXCEPT !.failed = Append(@, item), !.log = @ \o r.log]

RECURSIVE sequenceLoopRaw(_, _, _)
sequenceLoopRaw(this, items, k) ==
    IF k = 0 THEN [failed |-> <<>>, successful |-> <<>>, log |-> <<>>]
    ELSE sequenceStepRaw(sequenceLoopRaw(this, items, k - 1), items[k], run(this, items[k]))

sequenceKeepsRaw(this, items) == sequenceReturn(sequenceLoopRaw(this, items, Len(items)))

\* this.sequence(array)
sequence(this, items) == sequenceReturn(sequenceLoop(this, items, Len(items)))

RECURSIVE hasBigInt(_)
\* the value is a BigInt or holds one
hasBigInt(value) ==
    \/ value.t = "bigint"
    \/ \E i \in DOMAIN value.items : hasBigInt(value.items[i])

RECURSIVE stringifyThrows(_)
\* JSON.stringify(error) throws a TypeError: it does so when it comes to a
\* BigInt (and when the structure is circular, which no value here is)
stringifyThrows(error) ==
    \/ hasBigInt(error.value)
    \/ \E i \in DOMAIN error.next : stringifyThrows(error.next[i])

\* new ValidationFailedError(error), thrown: the constructor first builds the
\* message `Decoding value failed: ${JSON.stringify(error)}`, and the
\* TypeError of JSON.stringify is what is thrown when that fails
ValidationFailedError(error) ==
    IF stringifyThrows(error) THEN Thrown("TypeError")
    ELSE [type |-> "THROW", value |-> Str(<<"ValidationFailedError">>), error |-> error]

\* if (result.type === 'OK') return result.value; else throw ...
guardReturn(r) ==
    IF r.res.type = "OK" THEN Ret(ReturnedValue(r.res.value), r.log)
    ELSE Ret(ValidationFailedError(r.res.error), r.log)

\* this.guard(data)
guard(this, data) == guardReturn(invoke(this, data))

----------------------------------------------------------------------------
(* The data and the decoders the calls are made with *)

\* all sequences over S of length lo..hi
SeqsOf(S, lo, hi) == UNION {[1..n -> S] : n \in lo..hi}

Hi == Str(<<"h", "i">>)

Scalars ==
    {Undefined, Null, Bool(TRUE), Num(5), Num(-1), NaN,
     Str(<<>>), Str(<<"5">>), Hi}

\* the elements of the arrays: scalars and arrays
Elements == Scalars \cup {Arr(<<Num(5)>>), Arr(<<Hi>>)}

Arrays == {Arr(items) : items \in SeqsOf(Elements, 0, MaxLen)}

\* the values of the properties of the objects
PropertyValues == {Num(5), Num(-1), Hi, Arr(<<Hi>>)}

\* the objects: each of the properties name, id, extra is left out or has a value
Objects ==
    {LET present == SelectSeq(<<"name", "id", "extra">>, LAMBDA k : f[k] # Absent)
     IN  Obj(present, [i \in DOMAIN present |-> f[present[i]]]) :
        f \in [{"name", "id", "extra"} -> PropertyValues \cup {Absent}]}

\* objects JSON.parse makes of a text with the key "__proto__"
ParsedObjects ==
    {Obj(<<"__proto__">>, <<v>>) : v \in PropertyValues}
        \cup {Obj(<<"id", "__proto__">>, <<v, w>>) : v, w \in PropertyValues}

\* Decoder.number.satisfy({ predicate: n => n > 0 })
positiveN == NewSatisfy(Primitive("number"), "positive", FALSE, <<>>)

\* the decoders of the properties of a shape
PropertyDecoders ==
    {Primitive("number"), Primitive("string"), positiveN, NewArray(Primitive("number"))}

\* the property names of the shapes
ShapeKeys == {"name", "id", "tag"}

\* the key lists of the shapes: at most MaxKeys different names
KeyLists ==
    {ks \in SeqsOf(ShapeKeys, 1, MaxKeys) : \A i, j \in DOMAIN ks : ks[i] = ks[j] => i = j}

ElementDecoders ==
    {Primitive("number"), Primitive("string"), positiveN,
     NewArray(Primitive("number")), NewFail(<<"no">>)}

Branches ==
    {Primitive("number"), Primitive("string"), Primitive("null"),
     NewArray(Primitive("number")), NewArray(Primitive("string")),
     NewOneOf(<<Primitive("boolean"), Primitive("undefined")>>)}

\* the decoders then, satisfy and default are called on
Receivers ==
    {Primitive("number"), Primitive("string"), Primitive("any"),
     NewArray(Primitive("number")), NewFail(<<"no">>)}

UserThens == {"okHi", "okSame", "any", "string", "unsupported"}

Predicates == {"positive", "always", "never"}

MapFunctions == {"identity", "toUndefined", "wrap"}

\* the finite numbers: n / 10^sc in lowest form
FiniteNumbers ==
    {Dec10(n, sc) : n \in {m \in (0 - MaxMantissa)..MaxMantissa : m % 10 # 0},
                    sc \in 0..MaxScale}
        \cup {Num(0), Num(10), Num(-10), Num(100)}

\* the characters the strings handed to Decoder.number are spelled with
NumberChars == {"1", ".", "e", "-", "+", "|", "h"}

NumberStrings ==
    {Str(s) : s \in SeqsOf(NumberChars, 1, MaxStr)}
        \cup {Str(<<"N", "a", "N">>), Str(<<"I", "n", "f", "i", "n", "i", "t", "y">>),
              Str(<<"-", "I", "n", "f", "i", "n", "i", "t", "y">>),
              Str(<<"-", "N", "a", "N">>)}

\* the data that is neither a number nor a string
OtherData ==
    {Undefined, Null, Bool(TRUE), Bool(FALSE), Arr(<<>>), Arr(<<Num(5)>>),
     Obj(<<>>, <<>>), Obj(<<"id">>, <<Num(5)>>)}

\* `${bool}`
BooleanToString(b) ==
    IF b THEN <<"t", "r", "u", "e">> ELSE <<"f", "a", "l", "s", "e">>

\* strings that are close to 'true' and 'false'
NearBooleanStrings ==
    {Str(<<"T", "r", "u", "e">>), Str(<<"F", "A", "L", "S", "E">>),
     Str(<<"t", "r", "u">>), Str(<<"t", "r", "u", "e", " ">>),
     Str(<<" ", "f", "a", "l", "s", "e">>), Str(<<"1">>), Str(<<"0">>),
     Str(<<"y", "e", "s">>)}

BooleanInputs ==
    {Bool(TRUE), Bool(FALSE), Str(BooleanToString(TRUE)), Str(BooleanToString(FALSE))}
        \cup NearBooleanStrings \cup NumberStrings \cup OtherData \cup Scalars
        \cup {Num(0), Num(1)}

NumberInputs ==
    FiniteNumbers \cup {Str(NumberToString(n)) : n \in FiniteNumbers}
        \cup NumberStrings \cup OtherData \cup {NaN, Infinity, NegInfinity, Str(<<>>), Hi}

\* the failure messages: the empty string and 'No'
FailureMessages == {<<>>, <<"N", "o">>}

\* the Results handed to Result.merge
Results ==
    {ok(Num(5)), ok(Hi),
     fail(makeSingleError(<<"Not a number">>, Hi)),
     fail(decoderFail(<<"no">>).error),
     fail(ListError(<<IndexedError(0, <<"Not a string">>, Num(5))>>)),
     fail(MapError(<<"id">>, <<makeSingleError(<<"Not a number">>, Hi)>>))}

----------------------------------------------------------------------------
(* The calls *)

NoResult == [type |-> "NONE", value |-> Absent, error |-> NoError]

\* a call that returned something that is not a Result
Returned == [type |-> "RETURN", value |-> Absent, error |-> NoError]

Init ==
    /\ phase = "idle"
    /\ op = "none"
    /\ dec = Primitive("none")
    /\ input = Absent
    /\ rs = <<>>
    /\ given = <<>>
    /\ result = NoResult
    /\ calls = <<>>
    /\ allocated = <<>>
    /\ tree = NoError

\* a call of operation o on decoder d with data returns r
Returns(o, d, data, r) ==
    /\ phase' = "done"
    /\ op' = o
    /\ dec' = d
    /\ input' = data
    /\ result' = r.res
    /\ calls' = r.log
    /\ UNCHANGED <<rs, allocated, tree>>

\* d.run(data) returns, for the decoder d an operation o built
Run(o, d, data) ==
    /\ Returns(o, d, data, run(d, data))
    /\ UNCHANGED given

\* Decoder.object(shape).run(data)
Object ==
    /\ phase = "idle"
    /\ \E keys \in KeyLists :
        \E ds \in [DOMAIN keys -> PropertyDecoders] :
            \E data \in Objects \cup Scalars \cup {Arr(<<Hi>>)} :
                Run("object", NewObject(keys, ds), data)

\* Decoder.array(decoder).run(data)
Array ==
    /\ phase = "idle"
    /\ \E d \in ElementDecoders :
        \E data \in Arrays \cup Scalars \cup {Obj(<<"id">>, <<Num(5)>>)} :
            Run("array", NewArray(d), data)

\* Result.merge(values, formatIndex)
Merge ==
    /\ phase = "idle"
    /\ \E values \in SeqsOf(Results, 0, MaxLen) :
        /\ phase' = "done"
        /\ op' = "merge"
        /\ rs' = values
        /\ result' = merge(values)
        /\ UNCHANGED <<dec, input, given, calls, allocated, tree>>

\* Decoder.oneOf(decoders)
OneOf ==
    /\ phase = "idle"
    /\ \E ds \in SeqsOf(Branches, 0, MaxLen) :
        /\ phase' = "built"
        /\ op' = "oneOf"
        /\ given' = ds
        /\ dec' = oneOf(ds)
        /\ result' = Returned
        /\ UNCHANGED <<input, rs, calls, allocated, tree>>

\* .run(data) on the decoder that was built returns r
RunReturns(data, r) ==
    /\ phase' = "done"
    /\ op' = "oneOf.run"
    /\ input' = data
    /\ result' = r.res
    /\ calls' = r.log
    /\ UNCHANGED <<dec, rs, given, tree>>

\* .run(data) on what Decoder.oneOf returned
RunOneOf ==
    /\ phase = "built"
    /\ \E data \in Scalars \cup {Arr(<<Hi>>), Arr(<<Num(5), Hi>>)} :
        /\ RunReturns(data, run(dec, data))
        /\ allocated' = IF dec = DecoderOkFunction THEN allocated
                         ELSE <<errorsAtReturn(dec.subs, data, 1, newErrors(allocated))>>

\* .run(data) once more on the decoder that was run
RunOneOfAgain ==
    /\ phase = "done"
    /\ op = "oneOf.run"
    /\ allocated # <<>>
    /\ Len(allocated) < MaxRuns
    /\ \E data \in Scalars \cup {Arr(<<Hi>>), Arr(<<Num(5), Hi>>)} :
        /\ RunReturns(data, run(dec, data))
        /\ allocated' = Append(allocated,
                                errorsAtReturn(dec.subs, data, 1, newErrors(allocated)))

\* this.then(dependentDecoder).run(data)
Then ==
    /\ phase = "idle"
    /\ \E this \in Receivers, f \in UserThens, data \in Scalars \cup {Arr(<<Num(5)>>)} :
        Run("then", NewThen(this, Fn(f, "none", FALSE, <<>>)), data)

\* this.satisfy({predicate, failureMessage}).run(data); n => n > 0 is a
\* predicate of numbers
Satisfy ==
    /\ phase = "idle"
    /\ \E this \in Receivers, p \in Predicates, hasMessage \in BOOLEAN,
          message \in FailureMessages, data \in Scalars \cup {Arr(<<Num(5)>>)} :
        /\ p = "positive" => this = Primitive("number")
        /\ ~hasMessage => message = <<>>
        /\ Run("satisfy", NewSatisfy(this, p, hasMessage, message), data)

\* this.default(value).run(data)
Default ==
    /\ phase = "idle"
    /\ \E this \in Receivers \cup {positiveN}, value \in {Num(0), Undefined, Hi},
          data \in Scalars \cup {Arr(<<Num(5)>>)} :
        Run("default", NewDefault(this, value), data)

\* this.map(mapFunction).run(data)
Map ==
    /\ phase = "idle"
    /\ \E this \in Receivers \cup {positiveN}, f \in MapFunctions,
          data \in Scalars \cup {Arr(<<Num(5)>>), Arr(<<Hi>>)} :
        Run("map", NewMap(this, MapFn(f)), data)

\* Decoder.number.run(data)
Number ==
    /\ phase = "idle"
    /\ \E data \in NumberInputs :
        Run("number", Primitive("number"), data)

\* Decoder.boolean.run(data)
Boolean ==
    /\ phase = "idle"
    /\ \E data \in BooleanInputs :
        Run("boolean", Primitive("boolean"), data)

\* Decoder.optional(decoder).run(data)
Optional ==
    /\ phase = "idle"
    /\ \E d \in Receivers \cup {positiveN, Primitive("null"), Primitive("boolean")},
          data \in Scalars \cup {Bool(FALSE), Arr(<<Num(5)>>), Arr(<<Hi>>)} :
        /\ Returns("optional", optional(d), data, run(optional(d), data))
        /\ given' = <<d>>

\* Decoder.field(key, decoder).run(data)
Field ==
    /\ phase = "idle"
    /\ \E key \in ShapeKeys, d \in PropertyDecoders \cup {Primitive("undefined"), Primitive("any")},
          data \in Objects \cup Scalars \cup {Arr(<<Hi>>)} :
        Run("field", NewField(key, d), data)

\* Decoder.dict(decoder).run(data)
Dict ==
    /\ phase = "idle"
    /\ \E d \in PropertyDecoders \cup {Primitive("any")},
          data \in Objects \cup ParsedObjects \cup Scalars
                    \cup {Arr(<<Hi>>), Arr(<<Num(5), Hi>>)} :
        Run("dict", NewDict(d), data)

\* this.sequence(array)
Sequence ==
    /\ phase = "idle"
    /\ \E this \in ElementDecoders, data \in Arrays :
        /\ Returns("sequence", this, data, sequence(this, data.items))
        /\ UNCHANGED given

\* this.guard(data)
Guard ==
    /\ phase = "idle"
    /\ \E this \in Receivers \cup {positiveN, NewObject(<<"id">>, <<Primitive("number")>>)},
          data \in Scalars \cup {Arr(<<Num(5)>>), Arr(<<Hi>>), Obj(<<"id">>, <<Hi>>),
                                  Obj(<<"id">>, <<Num(5)>>), BigInt(10),
                                  Arr(<<BigInt(10)>>), Obj(<<"id">>, <<BigInt(10)>>)} :
        /\ Returns("guard", this, data, guard(this, data))
        /\ UNCHANGED given

\* the strings literalString is called with, and other strings near them
LiteralStrings == {Str(<<"J", "A", "C", "K">>), Hi, Str(<<>>), Str(<<"5">>)}

NearLiteralStrings ==
    LiteralStrings
        \cup {Str(<<"J", "A", "C", "K", "F", "R", "U", "I", "T">>), Str(<<"j", "a", "c", "k">>),
              Str(<<"J", "A", "C">>), Str(<<"h", "i", " ">>), Str(<<"5", ".", "0">>),
              Str(<<"+", "5">>), Str(<<"N", "a", "N">>), Str(<<"1", ".", "5">>)}

\* the numbers literalNumber is called with
LiteralNumbers == {Num(5), Num(-1), Num(0), Dec10(15, 1), NaN}

\* Decoder.literalString(str).run(data)
LiteralStringRun ==
    /\ phase = "idle"
    /\ \E str \in LiteralStrings, data \in NearLiteralStrings \cup Scalars \cup OtherData :
        Run("literalString", literalString(str), data)

\* Decoder.literalNumber(number).run(data)
LiteralNumberRun ==
    /\ phase = "idle"
    /\ \E n \in LiteralNumbers, data \in NearLiteralStrings \cup Scalars \cup OtherData
                                      \cup LiteralNumbers \cup {Infinity} :
        Run("literalNumber", literalNumber(n), data)

\* the Dates handed to the date decoders
Dates == {DateOf(0), DateOf(5), DateOf(MsPerDay), DateOf(MakeTime(2, 1, 1, 1, 1)), InvalidDate}

\* strings in the date-time format that name no date: month 13, day 45
IllegalDateStrings ==
    {Str(<<"1", "9", "7", "0", "-", "1", "3", "-", "0", "1">>),
     Str(<<"1", "9", "7", "0", "-", "0", "1", "-", "4", "5">>),
     Str(<<"1", "9", "7", "0", "-", "0", "1", "-", "0", "1", "T", "2", "5", ":", "0", "0",
           ":", "0", "0", ".", "0", "0", "0", "Z">>)}

\* the data handed to the date decoders
DateInputs ==
    Dates \cup {Str(toISOString(d)) : d \in Dates \ {InvalidDate}}
          \cup {Num(d.n) : d \in Dates \ {InvalidDate}}
          \cup {Str(NumberToString(Num(d.n))) : d \in Dates \ {InvalidDate}}
          \cup {Str(<<"1", "9", "7", "0", "-", "0", "1", "-", "0", "2">>)}
          \cup IllegalDateStrings
          \cup {Str(<<"a", "b", "r", "a">>), Str(<<"1", "9", "7", "0", "-", "0", "1">>),
                Dec10(15, 1), Num(-5), NaN, Infinity, NegInfinity,
                Str(<<"-", "I", "n", "f", "i", "n", "i", "t", "y">>)}
          \cup OtherData

\* Decoder.isoDate.run(data)
IsoDate ==
    /\ phase = "idle"
    /\ \E data \in DateInputs :
        Run("isoDate", Primitive("isoDate"), data)

\* Decoder.date.run(data)
Date ==
    /\ phase = "idle"
    /\ \E data \in DateInputs :
        Run("date", date, data)

\* Decoder.timestamp.run(data)
Timestamp ==
    /\ phase = "idle"
    /\ \E data \in NumberInputs :
        Run("timestamp", timestamp, data)

\* this.or(decoder).run(data)
Or ==
    /\ phase = "idle"
    /\ \E this \in Receivers, other \in Branches, data \in Scalars \cup {Arr(<<Hi>>)} :
        Run("or", NewOr(this, other), data)

\* the errors without children that are rendered
RenderedLeaves ==
    {MessageError(<<"Not a number">>), MessageError(<<"Not a string">>),
     NextError(<<"Key name, Not a number">>, <<>>),
     NextError(<<"Key JWT, Not a JWT token">>, <<>>)}

\* the errors that are children of the root of a rendered error of two levels
RenderedChildren ==
    {MessageError(<<"Not a number">>),
     NextError(<<"Key name, Not a number">>, <<>>),
     NextError(<<"Key Auth, Decoding errors in object">>,
               <<MessageError(<<"Not a string">>)>>),
     NextError(<<"Key Auth, Decoding errors in object">>,
               <<NextError(<<"Key JWT, Not a JWT token">>, <<>>)>>)}

\* the errors handed to renderError
RenderedErrors ==
    RenderedLeaves
      \cup {NextError(<<"Not one of">>, next) : next \in SeqsOf(RenderedLeaves, 1, MaxNext)}
      \cup {NextError(<<"Decoding errors in object">>, next) :
                next \in SeqsOf(RenderedChildren, 1, MaxNext)}

\* renderError(error)
Render ==
    /\ phase = "idle"
    /\ \E error \in RenderedErrors :
        /\ phase' = "done"
        /\ op' = "renderError"
        /\ tree' = error
        /\ result' = ReturnedValue(Str(renderError(error)))
        /\ UNCHANGED <<dec, input, rs, given, calls, allocated>>

\* the caller is done with the result and makes its next call
Return ==
    /\ phase = "done"
    /\ phase' = "idle"
    /\ op' = "none"
    /\ dec' = Primitive("none")
    /\ input' = Absent
    /\ rs' = <<>>
    /\ given' = <<>>
    /\ result' = NoResult
    /\ calls' = <<>>
    /\ allocated' = <<>>
    /\ tree' = NoError

Next ==
    \/ Object
    \/ Array
    \/ Merge
    \/ OneOf
    \/ RunOneOf
    \/ RunOneOfAgain
    \/ Then
    \/ Satisfy
    \/ Default
    \/ Map
    \/ Number
    \/ Boolean
    \/ Optional
    \/ Field
    \/ Dict
    \/ Sequence
    \/ Guard
    \/ LiteralStringRun
    \/ LiteralNumberRun
    \/ Timestamp
    \/ IsoDate
    \/ Date
    \/ Or
    \/ Render
    \/ Return

Spec == Init /\ [][Next]_vars

----------------------------------------------------------------------------
(* What the claims speak of *)

\* the decoder functions the decoder that was run called itself, in order:
\* each with the data it was called on
ChildCalls ==
    LET direct == SelectSeq(calls, LAMBDA e : e.kind = "decoder" /\ e.lvl = 1)
    IN  [i \in DOMAIN direct |-> <<direct[i].d, direct[i].x>>]

\* the calls of user functions of one kind, at any depth
FnCalls(kind) == SelectSeq(calls, LAMBDA e : e.kind = kind)

\* what decoder d makes of data, on its own
Outcome(d, data) == invoke(d, data).res

\* the input is a non-null object (typeof data === 'object' && data !== null)
InputIsObject == typeof(input) = "object" /\ input # Null

\* what each declared key's decoder makes of input[key]
KeyOutcomes == [i \in DOMAIN dec.keys |-> Outcome(dec.subs[i], Get(input, dec.keys[i]))]

\* what each branch of the oneOf makes of the input
BranchOutcomes == [i \in DOMAIN given |-> Outcome(given[i], input)]

\* the indices of the failures of a sequence of Results, ascending
RECURSIVE FailingFrom(_, _)
FailingFrom(values, i) ==
    IF i > Len(values) THEN <<>>
    ELSE IF values[i].type = "FAIL" THEN <<i>> \o FailingFrom(values, i + 1)
    ELSE FailingFrom(values, i + 1)

\* an entry of merge's failure list is the error e annotated with index i
Annotates(entry, i, e) ==
    /\ entry.index = i
    /\ \/ entry.k = "indexed" /\ entry.msg = e.msg /\ entry.value = ValueOf(e)
       \/ entry.k = "pair" /\ entry.next[2] = e

----------------------------------------------------------------------------
\* the result is FAIL exactly when one of the outcomes of the keys is, and
\* its error then has the failing keys, each with the error of its outcome
HasEntryPerFailingKey(outcomes) ==
    LET failing == {i \in DOMAIN dec.keys : outcomes[i].type = "FAIL"}
    IN  /\ result.type = "FAIL" <=> failing # {}
        /\ result.type = "FAIL" =>
              /\ result.error.k = "map"
              /\ Len(result.error.keys) = Cardinality(failing)
              /\ Range(result.error.keys) = {dec.keys[i] : i \in failing}
              /\ \A j \in DOMAIN result.error.keys :
                    result.error.next[j]
                      = outcomes[IndexOf(dec.keys, result.error.keys[j])].error

(* C1: on a non-null object, Decoder.object(shape).run runs the decoder of  *)
(* every declared key on input[key], in the order of the shape, whether or *)
(* not an earlier one failed; it returns FAIL exactly when some key's      *)
(* decoder fails, and the failure then has exactly one entry per failing   *)
(* key, under that key, holding that decoder's error, and no entry for a   *)
(* key that decoded.                                                       *)
C1_ObjectCollectsEveryKeyFailure ==
    (op = "object" /\ InputIsObject) =>
        /\ ChildCalls = [i \in DOMAIN dec.keys |-> <<dec.subs[i], Get(input, dec.keys[i])>>]
        /\ HasEntryPerFailingKey(KeyOutcomes)

\* the first key's decoder fails, the second is run all the same and decodes
C1_Witness ==
    /\ op = "object"
    /\ input.t = "object"
    /\ Len(dec.keys) = 2
    /\ KeyOutcomes[1].type = "FAIL"
    /\ KeyOutcomes[2].type = "OK"
    /\ Len(ChildCalls) = 2
    /\ result.type = "FAIL"
    /\ result.error.keys = <<dec.keys[1]>>

\* when all the outcomes of the keys are OK, the result is OK of the record
\* of their values under the keys of the shape
IsRecordOfShape(outcomes) ==
    (\A i \in DOMAIN dec.keys : outcomes[i].type = "OK") =>
        /\ result.type = "OK"
        /\ result.error = NoError
        /\ result.value.t = "object"
        /\ Len(result.value.keys) = Len(dec.keys)
        /\ Range(result.value.keys) = Range(dec.keys)
        /\ \A i \in DOMAIN dec.keys : Get(result.value, dec.keys[i]) = outcomes[i].value

(* C2: when every declared key's decoder succeeds on a non-null object,     *)
(* Decoder.object(shape).run returns OK of a record whose keys are exactly *)
(* the keys of the shape, each with its decoder's value; a key of the      *)
(* input that the shape does not declare is neither in the record nor an   *)
(* error.                                                                  *)
C2_ObjectOkHasExactlyShapeKeys ==
    (op = "object" /\ InputIsObject) => IsRecordOfShape(KeyOutcomes)

\* the input has the undeclared key extra, which the record returned has not
C2_Witness ==
    /\ op = "object"
    /\ input.t = "object"
    /\ "extra" \in Range(input.keys)
    /\ result.type = "OK"
    /\ Len(dec.keys) = 2
    /\ "extra" \notin Range(result.value.keys)

(* C3: Result.merge(rs) is OK exactly when no element of rs is a failure,   *)
(* and then holds the success values in input order; otherwise it is FAIL  *)
(* of a list with one entry per failing element, in their order in rs,     *)
(* each the element's error annotated with the element's index in rs.      *)
C3_MergeReportsEveryFailureWithIndex ==
    (op = "merge") =>
        LET failing == FailingFrom(rs, 1)
        IN  /\ result.type = "OK" <=> failing = <<>>
            /\ result.type = "OK" =>
                  result.value = Arr([i \in DOMAIN rs |-> rs[i].value])
            /\ result.type # "OK" =>
                  /\ result.type = "FAIL"
                  /\ result.error.k = "list"
                  /\ Len(result.error.next) = Len(failing)
                  /\ \A j \in DOMAIN failing :
                        Annotates(result.error.next[j], failing[j] - 1, rs[failing[j]].error)

\* a failure first and a success after it: the success adds nothing
C3_Witness ==
    /\ op = "merge"
    /\ Len(rs) = 2
    /\ rs[1].type = "FAIL"
    /\ rs[2].type = "OK"
    /\ result.type = "FAIL"
    /\ Len(result.error.next) = 1

\* when all the outcomes of the elements are OK, the result is OK of the
\* array of their values
IsArrayOfValues(out) ==
    (\A i \in DOMAIN out : out[i].type = "OK") =>
        /\ result.type = "OK"
        /\ result.value = Arr([i \in DOMAIN out |-> out[i].value])
        /\ Len(result.value.items) = Len(input.items)
        /\ (dec.subs[1] = Primitive("string") => result.value = input)

(* C4: Decoder.array(d).run(x) on an x that is no array is FAIL with a      *)
(* single leaf error and calls d not once; on an array it calls d on every *)
(* element in index order and, when every element decodes, is OK of the    *)
(* decoded values in that order (so array(string) returns an array of      *)
(* strings as it is).                                                      *)
C4_ArrayDecodesEveryElementInOrder ==
    (op = "array") =>
        /\ ~isArray(input) =>
              /\ result.type = "FAIL"
              /\ result.error.k = "single"
              /\ result.error.next = <<>>
              /\ ChildCalls = <<>>
        /\ isArray(input) =>
              /\ ChildCalls = [i \in DOMAIN input.items |-> <<dec.subs[1], input.items[i]>>]
              /\ IsArrayOfValues([i \in DOMAIN input.items |->
                                     Outcome(dec.subs[1], input.items[i])])

\* an array of two strings under array(string)
C4_Witness ==
    /\ op = "array"
    /\ dec.subs[1] = Primitive("string")
    /\ isArray(input)
    /\ Len(input.items) = 2
    /\ result = ok(input)
    /\ Len(ChildCalls) = 2

\* the branches were called up to the first whose outcome is OK, and that
\* outcome is the result
StopsAtFirstSuccess(outcomes) ==
    LET succeeding == {i \in DOMAIN given : outcomes[i].type = "OK"}
        last == IF succeeding = {} THEN Len(given)
                ELSE CHOOSE i \in succeeding : \A j \in succeeding : i <= j
    IN  /\ ChildCalls = [i \in 1..last |-> <<given[i], input>>]
        /\ succeeding # {} => result = ok(outcomes[last].value)

(* C5: Decoder.oneOf(ds).run(x), for a non-empty ds, calls the decoders of  *)
(* ds from left to right on the same x and returns the OK of the first     *)
(* that succeeds; no decoder after that one is called.                     *)
C5_OneOfStopsAtFirstSuccess ==
    (op = "oneOf.run" /\ Len(given) > 0) => StopsAtFirstSuccess(BranchOutcomes)

\* the first of two branches succeeds and the second one is not called
C5_Witness ==
    /\ op = "oneOf.run"
    /\ Len(given) = 2
    /\ BranchOutcomes[1].type = "OK"
    /\ BranchOutcomes[2].type = "OK"
    /\ BranchOutcomes[2].value # BranchOutcomes[1].value
    /\ result = ok(BranchOutcomes[1].value)
    /\ Len(ChildCalls) = 1

(* C6: when every decoder of a non-empty ds fails on x,                     *)
(* Decoder.oneOf(ds).run(x) is one FAIL whose children are the branch      *)
(* errors: one child per branch, in the order of ds, the i-th child being  *)
(* the error of the i-th decoder.                                          *)
C6_OneOfFailureHasOneChildPerBranch ==
    (op = "oneOf.run" /\ Len(given) > 0
        /\ \A i \in DOMAIN given : BranchOutcomes[i].type = "FAIL") =>
        /\ result.type = "FAIL"
        /\ Len(result.error.next) = Len(given)
        /\ result.error.next = [i \in DOMAIN given |-> BranchOutcomes[i].error]

(* C7: Decoder.oneOf of an empty list fails at the call itself: it throws,  *)
(* and returns nothing that could be run later.                            *)
C7_EmptyOneOfThrowsWhenBuilt ==
    (op = "oneOf" /\ Len(given) = 0) =>
        /\ result.type = "THROW"
        /\ phase # "built"

\* first is the outcome of d: on OK(v) the result is what f(v) makes of the
\* input, on FAIL it is that failure and f was not called
ContinuesWithDependent(first) ==
    /\ first.type = "OK" =>
          /\ result = Outcome(UserThen(dec.fn.name, first.value), input)
          /\ Len(FnCalls("dependentDecoder")) = 1
          /\ FnCalls("dependentDecoder")[1].x = first.value
    /\ first.type = "FAIL" =>
          /\ result = fail(first.error)
          /\ FnCalls("dependentDecoder") = <<>>

(* C8: d.then(f).run(x): when d.run(x) is OK(v) the result is what the      *)
(* decoder f(v) makes of the original input x; when d.run(x) is FAIL(e)    *)
(* the result is FAIL(e) and f is not called.                              *)
C8_ThenRunsDependentDecoderOnInput ==
    (op = "then") => ContinuesWithDependent(Outcome(dec.subs[1], input))

\* number turns '5' into 5, and the decoder f(5) = Decoder.any is given '5'
C8_Witness ==
    /\ op = "then"
    /\ dec.subs[1] = Primitive("number")
    /\ dec.fn.name = "any"
    /\ input = Str(<<"5">>)
    /\ Outcome(dec.subs[1], input) = ok(Num(5))
    /\ result = ok(Str(<<"5">>))

(* C9: d.satisfy({predicate: p, failureMessage: m}).run(x): when d fails    *)
(* the result is d's failure and p is not called; when d gives OK(v) and   *)
(* p(v) holds the result is OK(v); when p(v) does not hold the result is a *)
(* FAIL whose message is m whenever m was given, whatever string m is, and *)
(* the generic message only when no m was given.                           *)
C9_SatisfyFailsWithGivenMessage ==
    (op = "satisfy") =>
        LET first == Outcome(dec.subs[1], input)
            holds == Predicate(dec.fn.predicate, first.value)
        IN  /\ first.type = "FAIL" =>
                  /\ result = first
                  /\ FnCalls("predicate") = <<>>
            /\ (first.type = "OK" /\ holds) => result = ok(first.value)
            /\ (first.type = "OK" /\ ~holds) =>
                  /\ result.type = "FAIL"
                  /\ result.error.msg = IF dec.fn.hasMessage THEN dec.fn.failureMessage
                                        ELSE <<"Not fulfilled predicate">>

\* the result is no FAIL: it is the outcome first when that is OK, and OK
\* of the default value when first is a FAIL
ReplacesFailure(first) ==
    /\ result.type # "FAIL"
    /\ first.type = "OK" => result = first
    /\ first.type = "FAIL" => result = ok(dec.value)

(* C10: d.default(v).run(x) is never a FAIL: it is d.run(x) when that is    *)
(* OK, and OK(v) when d.run(x) is a FAIL, whatever the failure.            *)
C10_DefaultReplacesEveryFailure ==
    (op = "default") => ReplacesFailure(Outcome(dec.subs[1], input))

\* the receiver fails on the input and the default value 0 is returned
C10_Witness ==
    /\ op = "default"
    /\ dec.subs[1] = Primitive("number")
    /\ input = Hi
    /\ Outcome(dec.subs[1], input).type = "FAIL"
    /\ result = ok(dec.value)
    /\ dec.value = Num(0)

----------------------------------------------------------------------------
\* first is the outcome of d: on OK(v) the result is OK(f(v)) and f was
\* called on v, on FAIL it is that failure and f was not called
TransformsSuccess(first) ==
    LET applied == [i \in DOMAIN FnCalls("mapFunction") |->
                       FnCalls("mapFunction")[i].x]
    IN  /\ first.type = "OK" =>
              /\ result = ok(UserMap(dec.fn.name, first.value))
              /\ applied = <<first.value>>
        /\ first.type = "FAIL" =>
              /\ result = fail(first.error)
              /\ applied = <<>>
        /\ dec.fn.name = "identity" => result = first

(* C11: d.map(f).run(x) is OK(f(v)) when d.run(x) is OK(v), with f called   *)
(* once, on v; it is FAIL(e) with d's own error e, and f is not called,    *)
(* when d.run(x) is FAIL(e); with the identity for f it is what d.run(x)   *)
(* is.                                                                     *)
C11_MapTransformsOnlySuccess ==
    op = "map" => TransformsSuccess(Outcome(dec.subs[1], input))

\* Decoder.number.map(v => [v]) on '5' gives OK([5])
C11_Witness ==
    /\ op = "map"
    /\ dec.subs[1] = Primitive("number")
    /\ dec.fn.name = "wrap"
    /\ input = Str(<<"5">>)
    /\ result = ok(Arr(<<Num(5)>>))

----------------------------------------------------------------------------
----------------------------------------------------------------------------
(* C13: Decoder.number.run(x) is FAIL for every x that is not a number and *)
(* is not a string of the grammar: an optional sign '+' or '-', one or     *)
(* more digits, optionally a '.' and one or more digits.                   *)
C13_NumberFailsOutsideGrammar ==
    (/\ op = "number"
     /\ input.t # "number"
     /\ ~(input.t = "string" /\ matchesTestGrammar(input.s)))
        => result.type = "FAIL"

----------------------------------------------------------------------------
----------------------------------------------------------------------------
----------------------------------------------------------------------------
\* the result is the OK of the outcome first, or a FAIL as first is
FollowsOutcome(first) ==
    /\ first.type = "OK" => result = first
    /\ first.type = "FAIL" => result.type = "FAIL"

(* C16: Decoder.optional(d).run(x) is OK(undefined) when x is undefined or *)
(* null, whatever d is; for every other x it is OK(v) when d.run(x) is     *)
(* OK(v) and FAIL when d.run(x) is FAIL.                                   *)
C16_OptionalAcceptsAbsence ==
    op = "optional" =>
        /\ input \in {Undefined, Null} => result = ok(Undefined)
        /\ input \notin {Undefined, Null} => FollowsOutcome(Outcome(given[1], input))

\* Decoder.optional(Decoder.number) on null: number rejects null, the result
\* is OK(undefined)
C16_Witness ==
    /\ op = "optional"
    /\ given = <<Primitive("number")>>
    /\ input = Null
    /\ Outcome(given[1], input).type = "FAIL"
    /\ result = ok(Undefined)

----------------------------------------------------------------------------
\* the result is the OK of the outcome first, or the FAIL of the error of
\* first under the key
PutsErrorUnderKey(first) ==
    /\ first.type = "OK" => result = first
    /\ first.type = "FAIL" =>
          /\ result.type = "FAIL"
          /\ result.error.k = "map"
          /\ result.error.keys = <<dec.keys[1]>>
          /\ result.error.next = <<first.error>>

(* C17: on a non-null object x, Decoder.field(k, d).run(x) runs d once, on *)
(* x[k] (undefined when x has no key k, which by itself is no error); it   *)
(* is OK(v) when d gives OK(v), and when d fails with e it is the FAIL     *)
(* whose error is { k: e }, with e whole as the value under k.             *)
C17_FieldRunsDecoderOnKey ==
    (op = "field" /\ InputIsObject) =>
        /\ ChildCalls = << <<dec.subs[1], Get(input, dec.keys[1])>> >>
        /\ PutsErrorUnderKey(Outcome(dec.subs[1], Get(input, dec.keys[1])))

\* Decoder.field('id', Decoder.array(Decoder.number)) on { id: ['hi'] }: the
\* error of the array, with its entry for index 0, is the value under id
C17_Witness ==
    /\ op = "field"
    /\ dec.keys = <<"id">>
    /\ Get(input, "id") = Arr(<<Hi>>)
    /\ result.type = "FAIL"
    /\ result.error.keys = <<"id">>
    /\ result.error.next[1].k = "list"
    /\ Len(result.error.next[1].next) = 1

----------------------------------------------------------------------------
(* C18: on a non-null object x, Decoder.dict(d).run(x) runs d on the value *)
(* of every key of x, in order; it is OK(m) exactly when every value       *)
(* decodes, and m then has the keys of x, each with its decoded value;     *)
(* otherwise it is a FAIL whose error has exactly the keys of x whose      *)
(* values failed, each with the error of its value.                        *)
C18_DictDecodesEveryValue ==
    (op = "dict" /\ input.t = "object") =>
        LET d == dec.subs[1]
            outs == [i \in DOMAIN input.keys |-> Outcome(d, input.items[i])]
            failing == FailingFrom(outs, 1)
        IN  /\ ChildCalls = [i \in DOMAIN input.keys |-> <<d, input.items[i]>>]
            /\ result.type \in {"OK", "FAIL"}
            /\ result.type = "OK" <=> failing = <<>>
            /\ result.type = "OK" =>
                  result.value = Obj(input.keys, [i \in DOMAIN outs |-> outs[i].value])
            /\ result.type = "FAIL" =>
                  /\ result.error.k = "map"
                  /\ result.error.keys = [j \in DOMAIN failing |-> input.keys[failing[j]]]
                  /\ result.error.next = [j \in DOMAIN failing |-> outs[failing[j]].error]

----------------------------------------------------------------------------
\* out are the outcomes of the items: successful is the values of the OKs
\* and failed is the items of the FAILs, both in order
PartitionsItems(out) ==
    LET indices == [i \in DOMAIN out |-> i]
        accepted == SelectSeq(indices, LAMBDA i : out[i].type = "OK")
        rejected == SelectSeq(indices, LAMBDA i : out[i].type = "FAIL")
        successful == Get(result.value, "successful").items
        failed == Get(result.value, "failed").items
    IN  /\ result.type = "RETURN"
        /\ successful = [j \in DOMAIN accepted |-> out[accepted[j]].value]
        /\ failed = [j \in DOMAIN rejected |-> input.items[rejected[j]]]
        /\ Len(successful) + Len(failed) = Len(input.items)

(* C19: d.sequence(items) returns, never fails: successful is the decoded  *)
(* values of the items d accepts, failed is the raw items d rejects, both  *)
(* in the order of items, and together they are as many as the items.      *)
C19_SequencePartitionsItems ==
    op = "sequence" =>
        PartitionsItems([i \in DOMAIN input.items |-> Outcome(dec, input.items[i])])

\* Decoder.number.sequence(['5', 'hi']): successful is [5], failed is ['hi']
C19_Witness ==
    /\ op = "sequence"
    /\ dec = Primitive("number")
    /\ input = Arr(<<Str(<<"5">>), Hi>>)
    /\ result = ReturnedValue(Partition(<<Hi>>, <<Num(5)>>))

----------------------------------------------------------------------------
(* C20: d.guard(x) returns v when d.run(x) is OK(v), and throws a          *)
(* ValidationFailedError whose error is e when d.run(x) is FAIL(e); it     *)
(* does nothing else.                                                      *)
C20_GuardReturnsOrThrows ==
    op = "guard" =>
        LET first == Outcome(dec, input)
        IN  /\ first.type = "OK" => result = ReturnedValue(first.value)
            /\ first.type = "FAIL" =>
                  result = [type |-> "THROW", value |-> Str(<<"ValidationFailedError">>),
                            error |-> first.error]
            /\ result.type \in {"RETURN", "THROW"}

\* the operations that are d.run(data) on a decoder built by the public
\* constructors and combinators
RunOperations ==
    {"object", "array", "oneOf.run", "then", "satisfy", "default", "map", "number",
     "boolean", "optional", "field", "dict", "literalString", "literalNumber",
     "timestamp", "isoDate", "date"}

(* C21: run on a decoder built by the public constructors and combinators,  *)
(* with user functions that do not throw, returns for every input either   *)
(* an OK with a value or a FAIL with an error; it never throws.            *)
C21_RunNeverThrows ==
    (phase = "done" /\ op \in RunOperations) =>
        /\ result.type \in {"OK", "FAIL"}
        /\ result.type = "OK" => result.error = NoError
        /\ result.type = "FAIL" => result.error # NoError

RECURSIVE Lines(_)
Lines(text) ==
    IF \A i \in DOMAIN text : text[i] # "\n" THEN <<text>>
    ELSE LET i == CHOOSE j \in DOMAIN text :
                      text[j] = "\n" /\ \A h \in 1..(j - 1) : text[h] # "\n"
         IN  <<Take(text, i - 1)>> \o Lines(Drop(text, i))

\* the nodes of an error in depth-first pre-order, each with its depth
RECURSIVE PreOrder(_, _)
PreOrder(error, k) ==
    LET below == [i \in DOMAIN error.next |-> PreOrder(error.next[i], k + 1)]
    IN  <<[depth |-> k, message |-> error.msg]>> \o join(below, <<>>)

(* C23: renderError(tree) is the line 'Error(s) decoding data:' followed by *)
(* one line per node of the tree, in depth-first pre-order, the line of a  *)
(* node at depth k (the root at 0) being its message behind exactly 2 + 2k *)
(* spaces; rendering the same tree again gives the same text.              *)
C23_RenderIsPreOrderOneNodePerLine ==
    (op = "renderError") =>
        LET lines == Lines(result.value.s)
            nodes == PreOrder(tree, 0)
        IN  /\ result.value.s = renderError(tree)
            /\ lines[1] = <<"Error(s) decoding data:">>
            /\ Len(lines) = 1 + Len(nodes)
            /\ \A i \in DOMAIN nodes :
                  LET pad == 2 + 2 * nodes[i].depth
                  IN  /\ Len(lines[i + 1]) > pad
                      /\ Take(lines[i + 1], pad + 1) = addSpaces(pad, nodes[i].message)

\* what the claim takes the text of a node to be
RECURSIVE RenderedNode(_, _)
RenderedNode(error, pad) ==
    IF error.next = <<>> THEN addSpaces(pad, error.msg)
    ELSE LET next == [i \in DOMAIN error.next |-> RenderedNode(error.next[i], pad + 2)]
         IN  addSpaces(pad, error.msg) \o <<":", "\n">> \o join(next, <<"\n">>)

(* C24: in the text of renderError a node without children, its next list  *)
(* absent or empty, is its indented message and nothing more, no ':' and   *)
(* no line after it; a node with children is its indented message, a ':'   *)
(* and then the lines of its children.                                     *)
C24_RenderMarksOnlyNodesWithChildren ==
    (op = "renderError") =>
        result.value.s = <<"Error(s) decoding data:", "\n">> \o RenderedNode(tree, 2)

(* C25: a.or(b).run(x) is what oneOf([a, b]).run(x) is: the OK of a when a  *)
(* succeeds, b not being called; else the OK of b when b succeeds; else    *)
(* one FAIL that holds the error of a and then the error of b, each as the *)
(* branch returned it.                                                     *)
C25_OrIsOneOfOfTwo ==
    (op = "or") =>
        LET a == dec.subs[1]
            b == dec.subs[2]
            ra == Outcome(a, input)
            rb == Outcome(b, input)
        IN  /\ result.type = Outcome(NewOneOf(<<a, b>>), input).type
            /\ ra.type = "OK" =>
                  /\ result = ok(ra.value)
                  /\ ChildCalls = <<<<a, input>>>>
            /\ (ra.type = "FAIL" /\ rb.type = "OK") =>
                  /\ result = ok(rb.value)
                  /\ ChildCalls = <<<<a, input>>, <<b, input>>>>
            /\ (ra.type = "FAIL" /\ rb.type = "FAIL") =>
                  /\ result.type = "FAIL"
                  /\ ChildCalls = <<<<a, input>>, <<b, input>>>>
                  /\ result.error.next = <<ra.error, rb.error>>

\* the Result first is OK of a value that is strictly equal to the literal
IsLiteral(first, literal) ==
    /\ first.type = "OK"
    /\ first.value.t = literal.t
    /\ first.value = literal
    /\ literal # NaN

(* C26: Decoder.literalString(s).run(x) is OK(s) exactly when               *)
(* Decoder.string.run(x) is OK(v) with v === s, and                        *)
(* Decoder.literalNumber(n).run(x) is OK(n) exactly when                   *)
(* Decoder.number.run(x) is OK(v) with v === n; in every other case the    *)
(* result is a FAIL (literalString('JACK') fails on 'JACKFRUIT').          *)
C26_LiteralsDecodeExactlyTheLiteral ==
    (op \in {"literalString", "literalNumber"}) =>
        /\ dec.subs[1] = Primitive(IF op = "literalString" THEN "string" ELSE "number")
        /\ IF IsLiteral(Outcome(dec.subs[1], input), dec.fn.literal)
             THEN result = ok(dec.fn.literal)
             ELSE result.type = "FAIL" /\ result.error.k = "single"

\* 'JACK' decodes 'JACK'
C26_Witness ==
    /\ op = "literalString"
    /\ dec.fn.literal = Str(<<"J", "A", "C", "K">>)
    /\ input = Str(<<"J", "A", "C", "K">>)
    /\ result = ok(input)

(* C27: Decoder.object(shape), Decoder.dict(d) and Decoder.field(k, d) want *)
(* a non-null mapping of keys to values: on null, undefined, a scalar or   *)
(* an array, run returns FAIL with the single leaf error 'Not an object'   *)
(* and calls no decoder of a key or value.                                 *)
C27_ObjectDecodersRejectNonMappings ==
    (op \in {"object", "dict", "field"} /\ input.t # "object") =>
        /\ result = fail(makeSingleError(<<"Not an object">>, input))
        /\ ChildCalls = <<>>

(* C28: Decoder.timestamp.run(x) is OK(n) only for a finite integer n: it   *)
(* is FAIL for every number that is no integer and for both infinities,    *)
(* whether x is a number or a string of a number.                          *)
C28_TimestampIsFiniteInteger ==
    (op = "timestamp" /\ result.type = "OK") =>
        /\ result.value.t = "number"
        /\ result.value.nk = "finite"
        /\ result.value.sc = 0

\* the decoder functions called at any depth, each with the data it was called on
AllCalls ==
    LET all == SelectSeq(calls, LAMBDA e : e.kind = "decoder")
    IN  {<<all[i].d, all[i].x>> : i \in DOMAIN all}

(* C29: Decoder.date tries the timestamp first and isoDate after it: when   *)
(* Decoder.timestamp accepts x with the value n, Decoder.date.run(x) is    *)
(* OK of the Date whose time value is n milliseconds, and isoDate is not   *)
(* called; when timestamp fails, the result is the OK of isoDate if there  *)
(* is one, and a FAIL when both fail.                                      *)
C29_DateIsTimestampThenIsoDate ==
    (op = "date") =>
        LET t == Outcome(timestamp, input)
            i == Outcome(Primitive("isoDate"), input)
        IN  /\ t.type = "OK" =>
                  /\ result.type = "OK"
                  /\ result.value.t = "date"
                  /\ result.value.nk = t.value.nk
                  /\ result.value.n = t.value.n
                  /\ <<Primitive("isoDate"), input>> \notin AllCalls
            /\ (t.type = "FAIL" /\ i.type = "OK") => result = ok(i.value)
            /\ (t.type = "FAIL" /\ i.type = "FAIL") => result.type = "FAIL"

(* C30: whatever the input is, a number, a string or any other value, the   *)
(* value of an OK of Decoder.number.run is not NaN.                        *)
C30_NumberNeverDecodesNaN ==
    (op = "number" /\ result.type = "OK") =>
        /\ result.value.t = "number"
        /\ ~isNaN(result.value)

=============================================================================
